---- MODULE Spec2Model ----
(***************************************************************************)
(* A model of src/app.py, the Streamlit stock dashboard script.            *)
(*                                                                         *)
(* The script is re-run from top to bottom on every user interaction, so   *)
(* one run of the script ("render pass") is one atomic step of the model.  *)
(* st.session_state is the only state that survives between passes; the   *)
(* widget values (text input, select box) are kept by the framework.       *)
(*                                                                         *)
(* Representation of Python values:                                        *)
(*   None            [t |-> "none"]                                        *)
(*   float('nan')    [t |-> "nan"]                                         *)
(*   str             [t |-> "str", s |-> <TLA+ string>]                    *)
(*   integral number [t |-> "num", neg |-> BOOLEAN, limbs |-> <<l1..lk>>]  *)
(*                   with value (+/-) SUM limbs[i] * 1000^(i-1); TLC's     *)
(*                   integers are 32 bit and 1e12 does not fit in one.     *)
(*   DataFrame       [t |-> "df", index |-> <<dates>>, cols |-> function   *)
(*                   from column names to sequences as long as the index]; *)
(*                   a date is the integer 10000*year + 100*month + day    *)
(*   dict            [t |-> "dict", d |-> function from keys to values]    *)
(* Prices of the price history are floats that are multiples of 1/8, kept  *)
(* as the integer number of eighths: such floats are exact in binary, so   *)
(* rounding and repr behave as the decimal arithmetic written here.        *)
(***************************************************************************)
EXTENDS Integers, Sequences, FiniteSets, TLC

VARIABLES
    raw_symbol,       \* text typed in st.text_input (sequence of characters)
    selected_period,  \* label chosen in st.selectbox
    session_state,    \* st.session_state: function from its keys to values
    fetch_calls,      \* get_stock_data calls made by the last pass
    provider,         \* what the provider did in the last pass
    errors,           \* st.error messages shown by the last pass
    page,             \* what the last pass rendered below the sidebar
    event,            \* the interaction that started the last pass
    last_success,     \* history: what the last successful fetch returned
    fmt_in, fmt_out,  \* format_large_number: argument and result
    info_in, table_out, \* financial_data: metadata mapping and table
    hist_in, display_out, csv_out \* historical table: history, screen, file

vars == <<raw_symbol, selected_period, session_state, fetch_calls, provider,
          errors, page, event, last_success, fmt_in, fmt_out, info_in, table_out,
          hist_in, display_out, csv_out>>

sessionVars == <<raw_symbol, selected_period, session_state, fetch_calls,
                 provider, errors, page, event, last_success>>
formatVars == <<fmt_in, fmt_out>>
metricsVars == <<info_in, table_out>>
exportVars == <<hist_in, display_out, csv_out>>

-----------------------------------------------------------------------------
(* Python values *)

None == [t |-> "none"]
NaN == [t |-> "nan"]
Str(s) == [t |-> "str", s |-> s]
Num(neg, limbs) == [t |-> "num", neg |-> neg, limbs |-> limbs]

Range(f) == {f[i] : i \in DOMAIN f}

IsZero(limbs) == \A i \in DOMAIN limbs : limbs[i] = 0

\* bool(v) as used by `if v`, `a or b`, `x if v else y`
Truthy(v) ==
    CASE v.t = "none" -> FALSE
      [] v.t = "nan" -> TRUE
      [] v.t = "str" -> v.s /= ""
      [] v.t = "num" -> ~IsZero(v.limbs)
      [] OTHER -> TRUE

\* a or b
Or(a, b) == IF Truthy(a) THEN a ELSE b

\* dict.get(key, default)
Get(info, key, default) == IF key \in DOMAIN info THEN info[key] ELSE default

-----------------------------------------------------------------------------
(* Number formatting *)

Pad2(n) == IF n < 10 THEN "0" \o ToString(n) ELSE ToString(n)
Pad3(n) == IF n < 10 THEN "00" \o ToString(n)
           ELSE IF n < 100 THEN "0" \o ToString(n) ELSE ToString(n)

\* index of the most significant non-zero limb, 0 for the number zero
RECURSIVE TopLimb(_, _)
TopLimb(limbs, i) ==
    IF i = 0 THEN 0
    ELSE IF limbs[i] /= 0 THEN i ELSE TopLimb(limbs, i - 1)

\* the limbs from index i down to index lo, as decimal digits; sep is put
\* between limbs (the "," of the format specification, or nothing)
RECURSIVE LimbDigits(_, _, _, _, _)
LimbDigits(limbs, i, lo, first, sep) ==
    IF i < lo THEN (IF first THEN "0" ELSE "")
    ELSE (IF first THEN ToString(limbs[i]) ELSE sep \o Pad3(limbs[i]))
         \o (IF i = lo THEN "" ELSE LimbDigits(limbs, i - 1, lo, FALSE, sep))

\* the integer part of |limbs| / 1000^j as decimal digits
IntDigits(limbs, j, sep) ==
    LET top == TopLimb(limbs, Len(limbs))
    IN IF top <= j THEN "0" ELSE LimbDigits(limbs, top, j + 1, TRUE, sep)

\* |limbs| / 1000^j is a whole number plus frac3/1000 plus a rest below 1/1000
Frac3(limbs, j) == IF j = 0 THEN 0 ELSE limbs[j]
RestNonZero(limbs, j) == \E i \in DOMAIN limbs : i < j /\ limbs[i] /= 0

\* limbs + 1 at limb index i (carry into the higher limbs)
RECURSIVE Incr(_, _)
Incr(limbs, i) ==
    IF i > Len(limbs) THEN Append(limbs, 1)
    ELSE IF limbs[i] = 999 THEN Incr([limbs EXCEPT ![i] = 0], i + 1)
    ELSE [limbs EXCEPT ![i] = @ + 1]

\* f"{x / 10**(3*j):.2f}" for the number x: round half to even at the second
\* decimal, which is what the format does for a float that holds the quotient
\* exactly; a tie that is not exact in binary is outside the inputs used.
\* h is the count of hundredths, c the digit after them, up says whether
\* the hundredths are rounded up.
RoundsUp(x, j, h, c) ==
    \/ c > 5
    \/ c = 5 /\ RestNonZero(x.limbs, j)
    \/ c = 5 /\ ~RestNonZero(x.limbs, j) /\ h % 2 = 1
Rounded2(x, j, h, up) ==
    (IF x.neg THEN "-" ELSE "")
    \o IntDigits(IF up /\ h = 99 THEN Incr(x.limbs, j + 1) ELSE x.limbs, j, "")
    \o "."
    \o Pad2(IF up /\ h = 99 THEN 0 ELSE IF up THEN h + 1 ELSE h)
Fixed2Digits(x, j, h, c) == Rounded2(x, j, h, RoundsUp(x, j, h, c))
Fixed2Div(x, j) ==
    Fixed2Digits(x, j, Frac3(x.limbs, j) \div 10, Frac3(x.limbs, j) % 10)

\* f"{x:.2f}"
Fixed2(x) == Fixed2Div(x, 0)

\* f"{x:,.0f}"
Comma0(x) == (IF x.neg THEN "-" ELSE "") \o IntDigits(x.limbs, 0, ",")

\* x * 100 for a non-negative number
RECURSIVE MulCarry(_, _, _, _)
MulCarry(limbs, i, k, carry) ==
    IF i > Len(limbs) THEN (IF carry = 0 THEN <<>> ELSE <<carry>>)
    ELSE LET p == limbs[i] * k + carry
         IN <<p % 1000>> \o MulCarry(limbs, i + 1, k, p \div 1000)
Times(x, k) == Num(x.neg, MulCarry(x.limbs, 1, k, 0))

-----------------------------------------------------------------------------
(* format_large_number, src/app.py lines 46-59 *)

\* the thresholds 1e3, 1e6, 1e9, 1e12 as powers of ten
E3 == 3
E6 == 6
E9 == 9
E12 == 12

\* abs(num) > 10**e: the comparison with its boundary excluded
AbsGT(num, e) ==
    /\ \E i \in DOMAIN num.limbs : i > e \div 3 /\ num.limbs[i] /= 0
    /\ \/ num.limbs[(e \div 3) + 1] /= 1
       \/ \E i \in DOMAIN num.limbs : i /= (e \div 3) + 1 /\ num.limbs[i] /= 0

\* abs(num) >= 10**e, for e a multiple of 3
AbsGE(num, e) ==
    \E i \in DOMAIN num.limbs : i > e \div 3 /\ num.limbs[i] /= 0

format_large_number(num) ==
    IF num.t = "none" \/ num.t = "nan" THEN "N/A"
    ELSE IF AbsGE(num, E12) THEN "$" \o Fixed2Div(num, E12 \div 3) \o "T"
    ELSE IF AbsGE(num, E9) THEN "$" \o Fixed2Div(num, E9 \div 3) \o "B"
    ELSE IF AbsGE(num, E6) THEN "$" \o Fixed2Div(num, E6 \div 3) \o "M"
    ELSE IF AbsGE(num, E3) THEN "$" \o Fixed2Div(num, E3 \div 3) \o "K"
    ELSE "$" \o Fixed2(num)

\* The inputs: the two absent inputs and, of either sign, every number
\* below 10^15 whose limbs are in LimbVals: the numbers next to and on each
\* threshold are among them, and 125 gives the exact ties x.125.
FormatLimbs == (E12 \div 3) + 1
LimbVals == {0, 1, 125, 999}
FormatInputs ==
    {None, NaN}
    \cup {Num(FALSE, l) : l \in [1..FormatLimbs -> LimbVals]}
    \cup {Num(TRUE, l) : l \in {m \in [1..FormatLimbs -> LimbVals] : ~IsZero(m)}}

-----------------------------------------------------------------------------
(* The metrics table, src/app.py lines 214-265 *)

\* the outcome of evaluating a Python expression: a string, or an exception
Ok(s) == [ok |-> TRUE, s |-> s]
Raise(exc) == [ok |-> FALSE, exc |-> exc]

\* f"{v:.2f}", f"{v:,.0f}": a format specification of a float applied to v
Format2f(v) ==
    CASE v.t = "num" -> Ok(Fixed2(v))
      [] v.t = "nan" -> Ok("nan")
      [] v.t = "none" -> Raise("TypeError")
      [] OTHER -> Raise("ValueError")
FormatComma0f(v) ==
    CASE v.t = "num" -> Ok(Comma0(v))
      [] v.t = "nan" -> Ok("nan")
      [] v.t = "none" -> Raise("TypeError")
      [] OTHER -> Raise("ValueError")

\* v * 100
Times100(v) ==
    CASE v.t = "num" -> Ok(Times(v, 100))
      [] v.t = "nan" -> Ok(NaN)
      [] OTHER -> Raise("TypeError")

\* prefix + r + suffix inside an f-string
Wrap(prefix, r, suffix) == IF r.ok THEN Ok(prefix \o r.s \o suffix) ELSE r

NA == Str("N/A")

\* f"${info.get(a, info.get(b, 'N/A')):.2f}" if info.get(a) or info.get(b) else "N/A"
DollarRow2(info, a, b) ==
    IF Truthy(Or(Get(info, a, None), Get(info, b, None)))
    THEN Wrap("$", Format2f(Get(info, a, Get(info, b, NA))), "")
    ELSE Ok("N/A")

\* f"${info.get(a, 'N/A'):.2f}" if info.get(a) else "N/A"
DollarRow(info, a) ==
    IF Truthy(Get(info, a, None))
    THEN Wrap("$", Format2f(Get(info, a, NA)), "")
    ELSE Ok("N/A")

\* f"{info.get(a, 'N/A'):.2f}" if info.get(a) else "N/A"
RatioRow(info, a) ==
    IF Truthy(Get(info, a, None))
    THEN Format2f(Get(info, a, NA))
    ELSE Ok("N/A")

\* f"{info.get(a, 0)*100:.2f}%" if info.get(a) else "N/A"
Percent(p) == IF p.ok THEN Wrap("", Format2f(p.s), "%") ELSE p
PercentRow(info, a) ==
    IF Truthy(Get(info, a, None))
    THEN Percent(Times100(Get(info, a, Num(FALSE, <<0>>))))
    ELSE Ok("N/A")

\* f"{info.get(a, info.get(b, 'N/A')):,.0f}" if info.get(a) or info.get(b) else "N/A"
CountRow2(info, a, b) ==
    IF Truthy(Or(Get(info, a, None), Get(info, b, None)))
    THEN FormatComma0f(Get(info, a, Get(info, b, NA)))
    ELSE Ok("N/A")

\* f"{info.get(a, 'N/A'):,.0f}" if info.get(a) else "N/A"
CountRow(info, a) ==
    IF Truthy(Get(info, a, None))
    THEN FormatComma0f(Get(info, a, NA))
    ELSE Ok("N/A")

\* format_large_number(info.get(a))
LargeRow(info, a) == Ok(format_large_number(Get(info, a, None)))

Metric ==
    << "Current Price", "Previous Close", "Open", "Day High", "Day Low",
       "52 Week High", "52 Week Low", "Market Cap", "P/E Ratio (Trailing)",
       "P/E Ratio (Forward)", "PEG Ratio", "Price to Book", "EPS (TTM)",
       "Dividend Yield", "Dividend Rate", "Beta", "Volume", "Avg Volume",
       "Revenue", "Profit Margin", "Operating Margin", "ROE", "ROA" >>

\* the "Value" list: one evaluated expression per row
Value(info) ==
    << DollarRow2(info, "currentPrice", "regularMarketPrice"),
       DollarRow(info, "previousClose"),
       DollarRow2(info, "open", "regularMarketOpen"),
       DollarRow2(info, "dayHigh", "regularMarketDayHigh"),
       DollarRow2(info, "dayLow", "regularMarketDayLow"),
       DollarRow(info, "fiftyTwoWeekHigh"),
       DollarRow(info, "fiftyTwoWeekLow"),
       LargeRow(info, "marketCap"),
       RatioRow(info, "trailingPE"),
       RatioRow(info, "forwardPE"),
       RatioRow(info, "pegRatio"),
       RatioRow(info, "priceToBook"),
       DollarRow(info, "trailingEps"),
       PercentRow(info, "dividendYield"),
       DollarRow(info, "dividendRate"),
       RatioRow(info, "beta"),
       CountRow2(info, "volume", "regularMarketVolume"),
       CountRow(info, "averageVolume"),
       LargeRow(info, "totalRevenue"),
       PercentRow(info, "profitMargins"),
       PercentRow(info, "operatingMargins"),
       PercentRow(info, "returnOnEquity"),
       PercentRow(info, "returnOnAssets") >>

\* financial_data: the two columns, or the exception the first failing row
\* raises while the dict literal is being built
Columns(value) ==
    LET bad == {i \in DOMAIN value : ~value[i].ok}
    IN IF bad = {}
       THEN [raised |-> FALSE, Metric |-> Metric,
             Value |-> [i \in DOMAIN value |-> value[i].s]]
       ELSE [raised |-> TRUE,
             exc |-> value[CHOOSE i \in bad : \A k \in bad : i <= k].exc]
financial_data(info) == Columns(Value(info))

-----------------------------------------------------------------------------
(* The sidebar, src/app.py lines 18-36 *)

\* str.upper() on the characters that can be typed here
UpperChar(c) ==
    CASE c = "a" -> "A"
      [] c = "p" -> "P"
      [] c = "l" -> "L"
      [] OTHER -> c
Upper(text) == [i \in DOMAIN text |-> UpperChar(text[i])]

\* str.strip(): leading and trailing whitespace removed
Whitespace == {" "}
RECURSIVE LStrip(_)
LStrip(text) ==
    IF text /= <<>> /\ Head(text) \in Whitespace THEN LStrip(Tail(text))
    ELSE text
RECURSIVE RStrip(_)
RStrip(text) ==
    IF text /= <<>> /\ text[Len(text)] \in Whitespace
    THEN RStrip(SubSeq(text, 1, Len(text) - 1))
    ELSE text
Strip(text) == RStrip(LStrip(text))

\* a sequence of characters as a string
RECURSIVE Join(_)
Join(text) == IF text = <<>> THEN "" ELSE Head(text) \o Join(Tail(text))

\* symbol = st.text_input(...).upper().strip()
SymbolOf(raw) == Join(Strip(Upper(raw)))

DefaultText == <<"A", "A", "P", "L">>

\* the periods the user selects among here
PeriodsUsed == {"1 Month", "1 Year", "Max"}

PeriodLabels ==
    << "1 Week", "1 Month", "3 Months", "6 Months", "1 Year", "2 Years",
       "5 Years", "Max" >>
period_options ==
    [l \in Range(PeriodLabels) |->
        CASE l = "1 Week" -> "5d"
          [] l = "1 Month" -> "1mo"
          [] l = "3 Months" -> "3mo"
          [] l = "6 Months" -> "6mo"
          [] l = "1 Year" -> "1y"
          [] l = "2 Years" -> "2y"
          [] l = "5 Years" -> "5y"
          [] l = "Max" -> "max"]
\* st.selectbox(..., index=4)
DefaultPeriodIndex == 4
DefaultPeriod == PeriodLabels[DefaultPeriodIndex + 1]

\* what the user can type: the default text and every text of at most
\* MaxTyped characters over TypedChars
MaxTyped == 1
TypedChars == {"a", " "}
RawTexts ==
    {DefaultText} \cup UNION {[1..n -> TypedChars] : n \in 0..MaxTyped}

-----------------------------------------------------------------------------
(* The provider (yfinance), seen from get_stock_data *)

MA20Window == 20
MA50Window == 50

\* the lengths of the histories the provider returns here: none, one bar
\* short of each window, and each window or more
MaxBars == 50
HistLens == {0, MA20Window - 1, MA20Window, MA50Window - 1, MaxBars}

Max(a, b) == IF a >= b THEN a ELSE b
Min(a, b) == IF a <= b THEN a ELSE b

DataFrame(index, cols) == [t |-> "df", index |-> index, cols |-> cols]
Dict(d) == [t |-> "dict", d |-> d]

\* what ticker.history returns: the Date index and the price columns, of n
\* daily bars; prices in eighths of a dollar
OpenOf(i) == 1200 + ((i * 7) % 5)
CloseOf(i) == 1200 + ((i * 3) % 5)
History(n) ==
    DataFrame([i \in 1..n |-> 20240000 + 100 * (1 + ((i - 1) \div 28))
                               + 1 + ((i - 1) % 28)],
              [c \in {"Open", "High", "Low", "Close", "Volume"} |->
                 [i \in 1..n |->
                    CASE c = "Open" -> OpenOf(i)
                      [] c = "High" -> Max(OpenOf(i), CloseOf(i)) + 1
                      [] c = "Low" -> Min(OpenOf(i), CloseOf(i)) - 1
                      [] c = "Close" -> CloseOf(i)
                      [] c = "Volume" -> 1000000 + i * 1500]])

Histories == {History(n) : n \in HistLens}

NumericKeys ==
    { "currentPrice", "regularMarketPrice", "previousClose", "open",
      "regularMarketOpen", "dayHigh", "regularMarketDayHigh", "dayLow",
      "regularMarketDayLow", "fiftyTwoWeekHigh", "fiftyTwoWeekLow",
      "marketCap", "trailingPE", "forwardPE", "pegRatio", "priceToBook",
      "trailingEps", "dividendYield", "dividendRate", "beta", "volume",
      "regularMarketVolume", "averageVolume", "totalRevenue",
      "profitMargins", "operatingMargins", "returnOnEquity",
      "returnOnAssets" }

\* the metadata mappings the provider returns here: every field a number,
\* and a primary field present with the value None and nothing else but its
\* fallback
InfoFull ==
    [k \in NumericKeys |-> Num(FALSE, <<150, 2>>)]
    @@ ("longName" :> Str("Apple Inc."))
InfoEmpty == [k \in {} |-> None]
InfoNonePrimary ==
    "currentPrice" :> None @@ "regularMarketPrice" :> Num(FALSE, <<150>>)
Infos == {Dict(InfoFull), Dict(InfoNonePrimary)}

ErrorTexts == {"", "timeout"}

\* what yf.Ticker / history / info do on one call: raise, or return a
\* history (possibly empty) and a metadata mapping
ProviderOutcomes ==
    {[kind |-> "raise", text |-> e] : e \in ErrorTexts}
    \cup {[kind |-> "return", hist |-> h, info |-> i] :
            h \in Histories, i \in Infos}

\* what is kept of an outcome to tell what the provider did in the pass
NotCalled == [kind |-> "none", text |-> "", bars |-> 0]
Observed(outcome) ==
    IF outcome.kind = "raise"
    THEN [kind |-> "raise", text |-> outcome.text, bars |-> 0]
    ELSE [kind |-> "return", text |-> "", bars |-> Len(outcome.hist.index)]

\* get_stock_data, lines 61-69: (hist, info, error)
get_stock_data(symbol, period, outcome) ==
    IF outcome.kind = "raise"
    THEN [hist |-> None, info |-> None, error |-> Str(outcome.text)]
    ELSE [hist |-> outcome.hist, info |-> outcome.info, error |-> None]

-----------------------------------------------------------------------------
(* The script body below the sidebar, src/app.py lines 38-44 and 71-355 *)

Keys == {"stock_data", "stock_info", "symbol"}

\* lines 38-44: a key that is not in st.session_state is set to None
InitSessionState(ss) ==
    [k \in Keys |-> IF k \in DOMAIN ss THEN ss[k] ELSE None]

\* hist.empty
Empty(hist) == Len(hist.index) = 0

\* line 72: fetch_button, with the initial-load test left out
FetchOnButtonOnly(fetch_button, ss, symbol) == fetch_button

\* line 72: fetch_button or (st.session_state.stock_data is None and symbol)
ShouldFetch(fetch_button, ss, symbol) ==
    fetch_button \/ (ss["stock_data"] = None /\ symbol /= "")

\* lines 80-82 with the symbol left as it was
StoreWithoutSymbol(ss, hist, info, symbol) ==
    [ss EXCEPT !["stock_data"] = hist, !["stock_info"] = info]

\* lines 80-82
StoreResult(ss, hist, info, symbol) ==
    [ss EXCEPT !["stock_data"] = hist, !["stock_info"] = info,
               !["symbol"] = Str(symbol)]

ErrorFetching(error) == "Error fetching data: " \o error
NoDataFound(symbol) ==
    "No data found for symbol '" \o symbol
    \o "'. Please check the symbol and try again."

\* lines 74-82 with the empty-history test left out
FetchBranchStoresEmpty(ss, symbol, r) ==
    IF Truthy(r.error)
    THEN [ss |-> ss, errors |-> <<ErrorFetching(r.error.s)>>]
    ELSE IF r.hist = None
    THEN [ss |-> ss, errors |-> <<NoDataFound(symbol)>>]
    ELSE [ss |-> StoreResult(ss, r.hist, r.info, symbol), errors |-> <<>>]

\* lines 74-82 with the empty history not reported
FetchBranchSilent(ss, symbol, r) ==
    IF Truthy(r.error)
    THEN [ss |-> ss, errors |-> <<ErrorFetching(r.error.s)>>]
    ELSE IF r.hist = None \/ Empty(r.hist)
    THEN [ss |-> ss, errors |-> <<>>]
    ELSE [ss |-> StoreResult(ss, r.hist, r.info, symbol), errors |-> <<>>]

\* lines 74-82: the session state and the messages after the fetch
FetchBranch(ss, symbol, r) ==
    IF Truthy(r.error)
    THEN [ss |-> ss, errors |-> <<ErrorFetching(r.error.s)>>]
    ELSE IF r.hist = None \/ Empty(r.hist)
    THEN [ss |-> ss, errors |-> <<NoDataFound(symbol)>>]
    ELSE [ss |-> StoreResult(ss, r.hist, r.info, symbol), errors |-> <<>>]

\* line 85
ShowData(ss) == ss["stock_data"] /= None /\ ~Empty(ss["stock_data"])

\* hist['Close'].rolling(window=w).mean(): NaN for the first w-1 rows, then
\* the mean of the last w closes, kept as the exact quotient sum / w
RECURSIVE PrefixSums(_, _, _)
PrefixSums(series, i, acc) ==
    IF i > Len(series) THEN acc
    ELSE PrefixSums(series, i + 1,
                    Append(acc, (IF i = 1 THEN 0 ELSE acc[i - 1]) + series[i]))
RollingMean(series, w) ==
    LET sums == PrefixSums(series, 1, <<>>)
    IN [i \in DOMAIN series |->
          IF i < w THEN NaN
          ELSE [t |-> "mean", w |-> w,
                sum |-> sums[i] - (IF i = w THEN 0 ELSE sums[i - w])]]

\* hist[name] = series: the column is added to, or replaced in, the frame
SetColumn(hist, name, series) ==
    DataFrame(hist.index, (name :> series) @@ hist.cols)

\* lines 155, 168 with the boundary excluded
MoreBarsThan(hist, w) == Len(hist.index) > w

\* lines 155, 168: len(hist) >= w
EnoughBars(hist, w) == Len(hist.index) >= w

\* lines 154-179: hist after the moving-average columns are set
WithAverages(hist) ==
    LET h20 == IF EnoughBars(hist, MA20Window)
               THEN SetColumn(hist, "MA20", RollingMean(hist.cols["Close"], MA20Window))
               ELSE hist
    IN IF EnoughBars(h20, MA50Window)
       THEN SetColumn(h20, "MA50", RollingMean(h20.cols["Close"], MA50Window))
       ELSE h20

\* lines 141-193: the names of the traces added to the figure, in order
Traces(hist) ==
    <<"Price">>
    \o (IF EnoughBars(hist, MA20Window) THEN <<"20-Day MA">> ELSE <<>>)
    \o (IF EnoughBars(hist, MA50Window) THEN <<"50-Day MA">> ELSE <<>>)
    \o <<"Volume">>

\* lines 182-183
Colors(hist) ==
    [i \in DOMAIN hist.index |->
        IF hist.cols["Close"][i] < hist.cols["Open"][i] THEN "red" ELSE "green"]

\* lines 86-92 with the symbol of the input box
HeaderSymbolFromInput(ss, symbol) == symbol

\* f"{v}" of a str or None
FormatValue(v) == IF v.t = "str" THEN v.s ELSE "None"

\* line 88: current_symbol = st.session_state.symbol, as lines 92, 311 and
\* 323 format it
CurrentSymbol(ss, symbol) == FormatValue(ss["symbol"])

\* line 91: info.get('longName', current_symbol)
CompanyName(info, current_symbol) ==
    LET v == Get(info, "longName", Str(current_symbol)) IN v.s

NoPage ==
    [branch |-> "none", header |-> "", traces |-> <<>>, colors |-> <<>>,
     exception |-> "", tables |-> FALSE, files |-> <<>>]

\* lines 354-365
EmptyPage == [NoPage EXCEPT !.branch = "empty"]

\* lines 85-352: what is rendered from the session state. An exception in
\* the metrics table ends the pass: what was rendered before it stays, the
\* tables and the download buttons after it are not rendered.  The key
\* metrics of lines 94-125 test each value before formatting it and raise
\* for none of the mappings in Infos; they are not part of the page here.
Rendered(hist, info, current_symbol, fd) ==
    [branch |-> "data",
     header |-> CompanyName(info, current_symbol) \o " (" \o current_symbol \o ")",
     traces |-> Traces(hist),
     colors |-> Colors(hist),
     exception |-> IF fd.raised THEN fd.exc ELSE "",
     tables |-> ~fd.raised,
     files |-> IF fd.raised THEN <<>>
               ELSE << current_symbol \o "_historical_data.csv",
                       current_symbol \o "_financial_metrics.csv" >>]
DataPage(ss, symbol) ==
    Rendered(ss["stock_data"], ss["stock_info"].d, CurrentSymbol(ss, symbol),
             financial_data(ss["stock_info"].d))

\* lines 84-365: the display, from the session state ss1 the fetch left.
\* hist is st.session_state.stock_data itself, so the columns set while the
\* chart is built are set in the session state.
Display(ss1, symbol) ==
    /\ session_state' =
         IF ShowData(ss1)
         THEN [ss1 EXCEPT !["stock_data"] = WithAverages(ss1["stock_data"])]
         ELSE ss1
    /\ page' = IF ShowData(ss1) THEN DataPage(ss1, symbol) ELSE EmptyPage

\* lines 71-82: the fetch, if this pass makes one
Fetch(ss0, symbol, period, fetch, outcome, fetched) ==
    /\ fetch_calls' = IF fetch THEN <<[symbol |-> symbol, period |-> period]>>
                      ELSE <<>>
    /\ provider' = IF fetch THEN Observed(outcome) ELSE NotCalled
    /\ errors' = fetched.errors
    /\ Display(fetched.ss, symbol)
    \* history: a successful fetch is a call in which the provider returns
    \* a history that is not empty
    /\ last_success' =
         IF fetch /\ outcome.kind = "return" /\ Len(outcome.hist.index) > 0
         THEN [hist |-> outcome.hist, info |-> outcome.info, symbol |-> symbol]
         ELSE last_success

Script(ss0, symbol, period, fetch, outcome) ==
    Fetch(ss0, symbol, period, fetch, outcome,
          IF fetch
          THEN FetchBranch(ss0, symbol, get_stock_data(symbol, period, outcome))
          ELSE [ss |-> ss0, errors |-> <<>>])

\* One run of the script: the widgets hold raw and selected, fetch_button is
\* TRUE in the run a click on the button starts, and outcome is what the
\* provider does if it is called.
RenderPass(raw, selected, fetch_button, outcome) ==
    /\ raw_symbol' = raw
    /\ selected_period' = selected
    /\ Script(InitSessionState(session_state), SymbolOf(raw),
              period_options[selected],
              ShouldFetch(fetch_button, InitSessionState(session_state),
                          SymbolOf(raw)),
              outcome)

\* the outcomes a pass can meet: the provider is only asked in a pass that
\* fetches
OutcomesFor(raw, fetch_button) ==
    IF ShouldFetch(fetch_button, InitSessionState(session_state), SymbolOf(raw))
    THEN ProviderOutcomes ELSE {NotCalled}

Loaded == DOMAIN session_state /= {}

SessionInit ==
    /\ raw_symbol = DefaultText
    /\ selected_period = DefaultPeriod
    /\ session_state = [k \in {} |-> None]
    /\ fetch_calls = <<>>
    /\ provider = NotCalled
    /\ errors = <<>>
    /\ page = NoPage
    /\ event = "none"
    /\ last_success = None

FormatIdle == fmt_in = None /\ fmt_out = ""
MetricsIdle == info_in = InfoEmpty /\ table_out = None
ExportIdle == hist_in = None /\ display_out = <<>> /\ csv_out = <<>>

\* the browser opens the page: the first run, with the widgets' defaults
Load ==
    /\ ~Loaded
    /\ \E o \in OutcomesFor(raw_symbol, FALSE) :
          RenderPass(raw_symbol, selected_period, FALSE, o)
    /\ event' = "load"
    /\ UNCHANGED <<formatVars, metricsVars, exportVars>>

\* the user changes the text of the symbol box
EnterSymbol ==
    /\ Loaded
    /\ \E raw \in RawTexts \ {raw_symbol} :
          \E o \in OutcomesFor(raw, FALSE) :
             RenderPass(raw, selected_period, FALSE, o)
    /\ event' = "symbol"
    /\ UNCHANGED <<formatVars, metricsVars, exportVars>>

\* the user selects another period
SelectPeriod ==
    /\ Loaded
    /\ \E selected \in (Range(PeriodLabels) \cap PeriodsUsed) \ {selected_period} :
          \E o \in OutcomesFor(raw_symbol, FALSE) :
             RenderPass(raw_symbol, selected, FALSE, o)
    /\ event' = "period"
    /\ UNCHANGED <<formatVars, metricsVars, exportVars>>

\* the user clicks "Fetch Data"
ClickFetch ==
    /\ Loaded
    /\ \E o \in OutcomesFor(raw_symbol, TRUE) :
          RenderPass(raw_symbol, selected_period, TRUE, o)
    /\ event' = "button"
    /\ UNCHANGED <<formatVars, metricsVars, exportVars>>

\* the user clicks one of the download buttons: a run with nothing changed
ClickDownload ==
    /\ Loaded
    /\ page.files /= <<>>
    /\ \E o \in OutcomesFor(raw_symbol, FALSE) :
          RenderPass(raw_symbol, selected_period, FALSE, o)
    /\ event' = "download"
    /\ UNCHANGED <<formatVars, metricsVars, exportVars>>

-----------------------------------------------------------------------------
(* The historical table and its export, src/app.py lines 275-306.  Text is  *)
(* a sequence of characters here, so that the file can be read back.       *)

DigitChars == <<"0", "1", "2", "3", "4", "5", "6", "7", "8", "9">>

\* str(n) for n >= 0
RECURSIVE Digits(_)
Digits(n) ==
    IF n < 10 THEN <<DigitChars[n + 1]>>
    ELSE Digits(n \div 10) \o <<DigitChars[(n % 10) + 1]>>

\* n as exactly k digits
RECURSIVE ZeroPad(_, _)
ZeroPad(n, k) ==
    IF k = 0 THEN <<>> ELSE ZeroPad(n \div 10, k - 1) \o <<DigitChars[(n % 10) + 1]>>

\* .dt.strftime('%Y-%m-%d')
Strftime(date) ==
    ZeroPad(date \div 10000, 4) \o <<"-">> \o ZeroPad((date \div 100) % 100, 2)
    \o <<"-">> \o ZeroPad(date % 100, 2)

\* a float that is a multiple of 1/8, in thousandths
Thousandths(eighths) == eighths * 125

\* Series.round(2) of a float given in thousandths: half to even, the ties
\* x.xx5 of multiples of 1/8 being exact in binary
Round2(m) ==
    LET h == m \div 10
        c == m % 10
    IN IF c > 5 \/ (c = 5 /\ h % 2 = 1) THEN (h + 1) * 10 ELSE h * 10

\* f"{x:,.0f}" of a non-negative integer
RECURSIVE Commas(_)
Commas(n) ==
    IF n < 1000 THEN Digits(n)
    ELSE Commas(n \div 1000) \o <<",">> \o ZeroPad(n % 1000, 3)

\* repr of a float given in thousandths, as to_csv writes it
RECURSIVE DropTrailingZeros(_)
DropTrailingZeros(text) ==
    IF Len(text) > 1 /\ text[Len(text)] = "0"
    THEN DropTrailingZeros(SubSeq(text, 1, Len(text) - 1))
    ELSE text
FloatRepr(m) ==
    Digits(m \div 1000) \o <<".">> \o DropTrailingZeros(ZeroPad(m % 1000, 3))

PriceColumns == <<"Open", "High", "Low", "Close">>
display_cols == <<"Date", "Open", "High", "Low", "Close", "Volume">>

\* iloc[::-1] with the order kept
SameOrder(rows) == rows

\* iloc[::-1].reset_index(drop=True)
Reversed(rows) == [i \in DOMAIN rows |-> rows[Len(rows) + 1 - i]]

\* lines 276-291: the rows of display_hist
display_hist(hist) ==
    Reversed([i \in DOMAIN hist.index |->
        [c \in Range(display_cols) |->
            CASE c = "Date" -> Strftime(hist.index[i])
              [] c = "Volume" -> Commas(hist.cols[c][i])
              [] OTHER -> Round2(Thousandths(hist.cols[c][i]))]])

\* lines 302-305: the rows of csv_hist
csv_hist(hist) ==
    [i \in DOMAIN hist.index |->
        [c \in Range(display_cols) |->
            CASE c = "Date" -> Strftime(hist.index[i])
              [] c = "Volume" -> hist.cols[c][i]
              [] OTHER -> Thousandths(hist.cols[c][i])]]

\* the characters of a name
Chars(name) ==
    CASE name = "Date" -> <<"D", "a", "t", "e">>
      [] name = "Open" -> <<"O", "p", "e", "n">>
      [] name = "High" -> <<"H", "i", "g", "h">>
      [] name = "Low" -> <<"L", "o", "w">>
      [] name = "Close" -> <<"C", "l", "o", "s", "e">>
      [] name = "Volume" -> <<"V", "o", "l", "u", "m", "e">>

\* fields joined by "," and ended by a line break
RECURSIVE CsvLine(_)
CsvLine(fields) ==
    IF Len(fields) = 1 THEN Head(fields) \o <<"\n">>
    ELSE Head(fields) \o <<",">> \o CsvLine(Tail(fields))

RECURSIVE Concat(_)
Concat(lines) == IF lines = <<>> THEN <<>> ELSE Head(lines) \o Concat(Tail(lines))

\* line 306: csv_hist.to_csv(index=False)
to_csv(rows) ==
    CsvLine([k \in DOMAIN display_cols |-> Chars(display_cols[k])])
    \o Concat([i \in DOMAIN rows |->
          CsvLine([k \in DOMAIN display_cols |->
             CASE display_cols[k] = "Date" -> rows[i]["Date"]
               [] display_cols[k] = "Volume" -> Digits(rows[i]["Volume"])
               [] OTHER -> FloatRepr(rows[i][display_cols[k]])])])

\* the histories exported here: at most MaxRows bars over these values
MaxRows == 2
ExportDates == <<20240131, 20240201, 20241231, 20250102>>
ExportOpens == {1200, 1201}
ExportCloses == {1201, 3}
ExportVolumes == {999, 1234567}
ExportBar(o, c, v) ==
    [Open |-> o, High |-> Max(o, c), Low |-> Min(o, c), Close |-> c, Volume |-> v]
ExportBars ==
    {ExportBar(o, c, v) : o \in ExportOpens, c \in ExportCloses, v \in ExportVolumes}
ExportInputs ==
    UNION {{DataFrame([i \in 1..n |-> ExportDates[i]],
                      [c \in {"Open", "High", "Low", "Close", "Volume"} |->
                          [i \in 1..n |-> bars[i][c]]]) :
              bars \in [1..n -> ExportBars]} : n \in 1..MaxRows}

\* the display branch, as far as the historical table and its download
ShowHistory ==
    /\ display_out = <<>>
    /\ display_out' = display_hist(hist_in)
    /\ csv_out' = to_csv(csv_hist(hist_in))
    /\ UNCHANGED <<hist_in, sessionVars, formatVars, metricsVars>>

InitExport ==
    /\ SessionInit /\ FormatIdle /\ MetricsIdle
    /\ hist_in \in ExportInputs /\ display_out = <<>> /\ csv_out = <<>>

SpecExport == InitExport /\ [][ShowHistory]_vars

-----------------------------------------------------------------------------
(* format_large_number and financial_data on their own *)

CallFormat ==
    /\ fmt_out = ""
    /\ fmt_out' = format_large_number(fmt_in)
    /\ UNCHANGED <<fmt_in, sessionVars, metricsVars, exportVars>>

InitFormat ==
    /\ SessionInit /\ MetricsIdle /\ ExportIdle
    /\ fmt_in \in FormatInputs /\ fmt_out = ""

SpecFormat == InitFormat /\ [][CallFormat]_vars

\* the fields each row of the table reads, the fallback second
RowKeys ==
    << <<"currentPrice", "regularMarketPrice">>, <<"previousClose">>,
       <<"open", "regularMarketOpen">>, <<"dayHigh", "regularMarketDayHigh">>,
       <<"dayLow", "regularMarketDayLow">>, <<"fiftyTwoWeekHigh">>,
       <<"fiftyTwoWeekLow">>, <<"marketCap">>, <<"trailingPE">>,
       <<"forwardPE">>, <<"pegRatio">>, <<"priceToBook">>, <<"trailingEps">>,
       <<"dividendYield">>, <<"dividendRate">>, <<"beta">>,
       <<"volume", "regularMarketVolume">>, <<"averageVolume">>,
       <<"totalRevenue">>, <<"profitMargins">>, <<"operatingMargins">>,
       <<"returnOnEquity">>, <<"returnOnAssets">> >>

\* the metadata mappings tried: for a row r, its first field holds pv, its
\* fallback field (if any) fv, every other field dv; a field that holds
\* Missing is not in the mapping
Missing == [t |-> "missing"]
FieldVals == {Missing, None, Num(FALSE, <<0>>), Num(FALSE, <<500, 1>>)}
InfoFor(r, pv, fv, dv) ==
    LET all == [k \in NumericKeys |->
                  IF k = RowKeys[r][1] THEN pv
                  ELSE IF Len(RowKeys[r]) > 1 /\ k = RowKeys[r][2] THEN fv
                  ELSE dv]
    IN [k \in {x \in NumericKeys : all[x] /= Missing} |-> all[k]]
InfoInputs ==
    {InfoFor(r, pv, fv, dv) :
        r \in DOMAIN RowKeys, pv \in FieldVals, fv \in FieldVals, dv \in FieldVals}

BuildTable ==
    /\ table_out = None
    /\ table_out' = financial_data(info_in)
    /\ UNCHANGED <<info_in, sessionVars, formatVars, exportVars>>

InitMetrics ==
    /\ SessionInit /\ FormatIdle /\ ExportIdle
    /\ info_in \in InfoInputs /\ table_out = None

SpecMetrics == InitMetrics /\ [][BuildTable]_vars

Init == SessionInit /\ FormatIdle /\ MetricsIdle /\ ExportIdle

Next == Load \/ EnterSymbol \/ SelectPeriod \/ ClickFetch \/ ClickDownload

Spec == Init /\ [][Next]_vars

-----------------------------------------------------------------------------
(* Properties *)

\* SessionState as the triple of its fields, a key not yet set read as None
View(ss) == InitSessionState(ss)
IsEmpty(ss) ==
    /\ View(ss)["stock_data"] = None
    /\ View(ss)["stock_info"] = None
    /\ View(ss)["symbol"] = None
IsPopulated(ss) ==
    /\ View(ss)["stock_data"].t = "df"
    /\ View(ss)["stock_info"].t = "dict"
    /\ View(ss)["symbol"].t = "str"

\* the columns of a stored history that the provider returned
FetchedColumns(hist) ==
    DataFrame(hist.index,
              [c \in DOMAIN hist.cols \ {"MA20", "MA50"} |-> hist.cols[c]])

RaisedInPass == provider.kind = "raise"
EmptyInPass == provider.kind = "return" /\ provider.bars = 0
FailedInPass == RaisedInPass \/ EmptyInPass
CurrentCall ==
    [symbol |-> SymbolOf(raw_symbol), period |-> period_options[selected_period]]

\* C1: the session state is either empty (all three fields None) or
\* populated, and when populated the history, the metadata and the symbol
\* are those of the last successful fetch and the history is not empty.
C1_AllOrNothing ==
    \/ IsEmpty(session_state) /\ last_success = None
    \/ /\ IsPopulated(session_state)
       /\ last_success /= None
       /\ Len(session_state["stock_data"].index) > 0
       /\ FetchedColumns(session_state["stock_data"]) = last_success.hist
       /\ session_state["stock_info"] = last_success.info
       /\ session_state["symbol"].s = last_success.symbol

\* a populated session after a second successful fetch, for another symbol
C1_Witness ==
    /\ IsPopulated(session_state)
    /\ provider.kind = "return" /\ provider.bars > 0
    /\ event = "button"
    /\ session_state["symbol"].s /= SymbolOf(DefaultText)

\* C2: a pass whose fetch fails leaves the session state as it was; the
\* session state changes only in a pass whose fetch succeeds; a populated
\* session stays populated.
C2_FailureKeepsSession ==
    [][ /\ FailedInPass' => View(session_state') = View(session_state)
        /\ View(session_state') /= View(session_state)
              => provider'.kind = "return" /\ provider'.bars > 0
        /\ IsPopulated(session_state) => IsPopulated(session_state') ]_vars

\* a failed fetch in a populated session
C2_Witness == IsPopulated(session_state) /\ FailedInPass

\* C3: a fetch in which the provider raises is reported by the one message
\* "Error fetching data: <error text>", and a fetch that returns an empty
\* history by the one message "No data found ...".
C3_ErrorKinds ==
    /\ RaisedInPass => errors = <<ErrorFetching(provider.text)>>
    /\ EmptyInPass => errors = <<NoDataFound(SymbolOf(raw_symbol))>>

C5_EveryActionFetches ==
    event \in {"symbol", "period", "button"} => fetch_calls = <<CurrentCall>>

\* C5 amended: a symbol entry, period change or button press starts one
\* pass, which renders once and makes one fetch, for the symbol and period
\* then selected, if the button was pressed or the session is empty and the
\* symbol is not, and no fetch otherwise.
C5_FetchOnButtonOrEmpty ==
    [][ event' \in {"symbol", "period", "button"} =>
          /\ page'.branch \in {"data", "empty"}
          /\ fetch_calls' =
                IF \/ event' = "button"
                   \/ IsEmpty(session_state) /\ SymbolOf(raw_symbol') /= ""
                THEN <<CurrentCall'>> ELSE <<>> ]_vars

\* a symbol entry in a populated session: a pass without a fetch
C5_Witness ==
    event = "symbol" /\ IsPopulated(session_state) /\ fetch_calls = <<>>
    /\ page.branch = "data"

\* C9: in a pass that displays data the chart has the 20-period overlay
\* exactly if the displayed history has at least 20 bars and the 50-period
\* overlay exactly if it has at least 50, in every pass, first or later.
C9_OverlayIffEnoughBars ==
    page.branch = "data" =>
        /\ "20-Day MA" \in Range(page.traces)
              <=> Len(session_state["stock_data"].index) >= MA20Window
        /\ "50-Day MA" \in Range(page.traces)
              <=> Len(session_state["stock_data"].index) >= MA50Window
        /\ Len(page.traces) =
              2 + (IF Len(session_state["stock_data"].index) >= MA20Window
                   THEN 1 ELSE 0)
                + (IF Len(session_state["stock_data"].index) >= MA50Window
                   THEN 1 ELSE 0)

\* a later pass, without a fetch, over a stored history of exactly 50 bars
C9_Witness ==
    /\ page.branch = "data" /\ provider.kind = "none" /\ event = "period"
    /\ Len(session_state["stock_data"].index) = MA50Window
    /\ page.traces = <<"Price", "20-Day MA", "50-Day MA", "Volume">>

\* C10: in a pass that displays data the header and both file names carry
\* the symbol of the last successful fetch, not the text of the input box.
C10_StoredSymbolShown ==
    page.branch = "data" =>
        /\ page.header =
              CompanyName(last_success.info.d, last_success.symbol)
              \o " (" \o last_success.symbol \o ")"
        /\ page.files /= <<>> =>
              page.files = << last_success.symbol \o "_historical_data.csv",
                              last_success.symbol \o "_financial_metrics.csv" >>

\* data on the page after a failed fetch for another symbol
C10_Witness ==
    /\ page.branch = "data" /\ page.files /= <<>>
    /\ FailedInPass
    /\ SymbolOf(raw_symbol) /= last_success.symbol

\* the suffix of each magnitude class, by the number of limbs in use
Suffixes == <<"", "K", "M", "B", "T">>
ClassOf(num) == Min(Max(TopLimb(num.limbs, Len(num.limbs)), 1), Len(Suffixes))

\* C8: "N/A" for an absent input; otherwise "$", the input divided by 1,
\* 10^3, 10^6, 10^9 or 10^12 with its sign and two decimals, and no suffix,
\* K, M, B or T, the class being chosen by the absolute value with each
\* threshold belonging to the class above it; 999, 1000 and 10^6 give
\* "$999.00", "$1.00K" and "$1.00M".
C8_Thresholds ==
    fmt_out /= "" =>
        /\ fmt_in = None => fmt_out = "N/A"
        /\ fmt_in.t = "num" =>
              fmt_out = "$" \o (IF fmt_in.neg THEN "-" ELSE "")
                        \o Fixed2Div(Num(FALSE, fmt_in.limbs), ClassOf(fmt_in) - 1)
                        \o Suffixes[ClassOf(fmt_in)]
        /\ fmt_in = Num(FALSE, <<999, 0, 0, 0, 0>>) => fmt_out = "$999.00"
        /\ fmt_in = Num(FALSE, <<0, 1, 0, 0, 0>>) => fmt_out = "$1.00K"
        /\ fmt_in = Num(FALSE, <<0, 0, 1, 0, 0>>) => fmt_out = "$1.00M"
        /\ fmt_in = Num(FALSE, <<0, 0, 0, 1, 0>>) => fmt_out = "$1.00B"
        /\ fmt_in = Num(FALSE, <<0, 0, 0, 0, 1>>) => fmt_out = "$1.00T"
        /\ fmt_in = Num(TRUE, <<0, 1, 0, 0, 0>>) => fmt_out = "$-1.00K"

\* the input exactly on the first threshold has been formatted
C8_Witness == fmt_in = Num(FALSE, <<0, 1, 0, 0, 0>>) /\ fmt_out = "$1.00K"

\* a field that is missing from the mapping or holds None
Absent(info, key) == key \notin DOMAIN info \/ info[key] = None

\* C7: building the table never raises, no value is blank, and a row whose
\* fields are all absent shows "N/A".
C7_TableNeverRaises ==
    table_out /= None =>
        /\ ~table_out.raised
        /\ \A r \in DOMAIN RowKeys :
              /\ table_out.Value[r] /= ""
              /\ (\A k \in Range(RowKeys[r]) : Absent(info_in, k))
                    => table_out.Value[r] = "N/A"

\* reading the file back: lines, fields, and each field as its column's type
Split(text, sep) ==
    LET seps == {i \in DOMAIN text : text[i] = sep}
        n == Cardinality(seps)
        At(k) == IF k = 0 THEN 0
                 ELSE IF k = n + 1 THEN Len(text) + 1
                 ELSE CHOOSE p \in seps : Cardinality({q \in seps : q < p}) = k - 1
    IN [k \in 1..(n + 1) |-> SubSeq(text, At(k - 1) + 1, At(k) - 1)]
DigitValue(ch) == CHOOSE d \in 0..9 : DigitChars[d + 1] = ch
RECURSIVE ParseNat(_, _)
ParseNat(text, acc) ==
    IF text = <<>> THEN acc ELSE ParseNat(Tail(text), acc * 10 + DigitValue(Head(text)))
RECURSIVE PadRight(_, _)
PadRight(text, k) == IF Len(text) >= k THEN text ELSE PadRight(Append(text, "0"), k)
\* a decimal numeral of at most three decimals, in thousandths
ParseFloat(text) ==
    LET parts == Split(text, ".")
    IN ParseNat(parts[1], 0) * 1000 + ParseNat(PadRight(parts[2], 3), 0)
Lines(text) == SelectSeq(Split(text, "\n"), LAMBDA l : l /= <<>>)
ReadRecord(names, fields) ==
    [c \in Range(display_cols) |->
        LET k == CHOOSE j \in DOMAIN names : names[j] = Chars(c)
        IN CASE c = "Date" -> fields[k]
             [] c = "Volume" -> ParseNat(fields[k], 0)
             [] OTHER -> ParseFloat(fields[k])]
read_csv(text) ==
    LET lines == Lines(text)
        names == Split(lines[1], ",")
    IN [i \in 1..(Len(lines) - 1) |->
          ReadRecord(names, Split(lines[i + 1], ","))]

\* a shown Volume with its thousands separators taken out
Unseparated(text) == SelectSeq(text, LAMBDA ch : ch /= ",")

\* a record read back and a record on screen hold the same values, the
\* formatting of Volume apart
SameRecord(read, shown) ==
    /\ read["Date"] = shown["Date"]
    /\ \A c \in Range(PriceColumns) : read[c] = shown[c]
    /\ Digits(read["Volume"]) = Unseparated(shown["Volume"])

\* a record on screen is the record read back with its prices rounded to
\* two decimals and its Volume given thousands separators
ShownFrom(read, shown) ==
    /\ read["Date"] = shown["Date"]
    /\ \A c \in Range(PriceColumns) : Round2(read[c]) = shown[c]
    /\ Commas(read["Volume"]) = shown["Volume"]

=============================================================================
